---------------------------- MODULE Spec2Model ----------------------------
(***************************************************************************)
(* Model of proxy-server.js: an Express relay in front of the DeepL client *)
(* with four POST handlers (/translate, /translate-document,               *)
(* /get-document-status, /download-document).                              *)
(*                                                                         *)
(* Every request is a slot of `req`.  A handler runs on Node's event loop: *)
(* the code between two awaits / callbacks is one atomic action.  Each     *)
(* request keeps a `log` of the side effects its handler performed, in the *)
(* order the code performs them.  `fs` is the set of regular files on disk *)
(* (the temp files the download handler has the provider write).           *)
(*                                                                         *)
(* Filesystem semantics assumed: unlink of an existing regular file        *)
(* removes it; unlink of a missing file fails with ENOENT and changes      *)
(* nothing.  uuidv4() is modelled as a fresh id on every call.             *)
(***************************************************************************)
EXTENDS Integers, Sequences, FiniteSets

VARIABLES req, fs, uuidCount

vars == <<req, fs, uuidCount>>

\* Number of client requests the model admits (they may all be in flight at once).
MaxReq == 2

Reqs == 1..MaxReq

-----------------------------------------------------------------------------
(* JSON values of request fields: a missing field, or a string.            *)

Undef == [t |-> "undefined"]

Str(v) == [t |-> "string", v |-> v]

\* JavaScript truthiness: `!x` is true for undefined and for "".
Truthy(x) == x.t = "string" /\ x.v # <<>>

\* Characters String.prototype.trim() strips.
Whitespace == {" ", "\t"}

RECURSIVE TrimStart(_)
TrimStart(s) ==
    IF s # <<>> /\ Head(s) \in Whitespace THEN TrimStart(Tail(s)) ELSE s

RECURSIVE TrimEnd(_)
TrimEnd(s) ==
    IF s # <<>> /\ s[Len(s)] \in Whitespace
    THEN TrimEnd(SubSeq(s, 1, Len(s) - 1))
    ELSE s

\* String.prototype.trim()
Trim(s) == TrimEnd(TrimStart(s))

-----------------------------------------------------------------------------
(* Paths.  A path or a file name is a sequence of segments (the text       *)
(* between two "/"); a segment is [u, stem, ext]: u is the uuid prefixed   *)
(* to it by the template string (0: none), stem and ext the name and its   *)
(* extension.  "/../a.pdf" is <<Seg("",""), Seg("..",""), Seg("a","pdf")>>.*)

Seg(stem, ext) == [u |-> 0, stem |-> stem, ext |-> ext]

DotDot == Seg("..", "")

EmptySeg == Seg("", "")

\* os.tmpdir()
tempDir == <<Seg("tmp", "")>>

\* `${uuidv4()}-${outputFileName}`: the uuid and the dash are glued to the
\* first segment of the name.
Template(uuid, name) ==
    <<[u |-> uuid, stem |-> Head(name).stem, ext |-> Head(name).ext]>> \o Tail(name)

\* path.normalize on an absolute path: "" and "." segments are dropped and
\* ".." removes the segment before it (nothing above the root).
RECURSIVE Normalize(_, _)
Normalize(done, rest) ==
    IF rest = <<>> THEN done
    ELSE IF Head(rest) = EmptySeg \/ Head(rest) = Seg(".", "")
         THEN Normalize(done, Tail(rest))
    ELSE IF Head(rest) = DotDot
         THEN Normalize(IF done = <<>> THEN <<>> ELSE SubSeq(done, 1, Len(done) - 1),
                        Tail(rest))
    ELSE Normalize(Append(done, Head(rest)), Tail(rest))

\* path.join(a, b)
PathJoin(a, b) == Normalize(<<>>, a \o b)

\* const tempFilePath = path.join(tempDir, `${uuidv4()}-${outputFileName}`)
TempFilePath(uuid, name) == PathJoin(tempDir, Template(uuid, name))

\* Directories that exist on disk: the root and the temp directory.
Dirs == {<<>>, tempDir}

Parent(p) == IF p = <<>> THEN <<>> ELSE SubSeq(p, 1, Len(p) - 1)

\* String.prototype.toLowerCase() on an extension
ToLowerCase(e) == IF e = "PDF" THEN "pdf" ELSE e

\* path.extname(outputFileName).toLowerCase()
ExtName(name) == ToLowerCase(name[Len(name)].ext)

getMimeType(fileExtension) ==
    CASE fileExtension = "pdf"  -> "application/pdf"
      [] fileExtension = "docx" -> "application/vnd.openxmlformats-officedocument.wordprocessingml.document"
      [] fileExtension = "pptx" -> "application/vnd.openxmlformats-officedocument.presentationml.presentation"
      [] fileExtension = "xlsx" -> "application/vnd.openxmlformats-officedocument.spreadsheetml.sheet"
      [] fileExtension = "txt"  -> "text/plain"
      [] fileExtension = "html" -> "text/html"
      [] fileExtension = "htm"  -> "text/html"
      [] OTHER                  -> "application/octet-stream"

-----------------------------------------------------------------------------
(* Inputs.                                                                 *)

\* Values of a required field whose content the relay does not look at.
FieldVals == {Undef, Str(<<>>), Str(<<"x">>)}

\* source_lang values: missing, empty, blank, a language, a padded language.
SourceLangs ==
    {Undef, Str(<<>>), Str(<<" ">>), Str(<<" ", "\t">>), Str(<<"E", "N">>),
     Str(<<" ", "E", "N">>)}

\* outputFileName values: a.pdf, a.txt, /../a.pdf, /../../a.pdf, ../a.pdf
FileNames ==
    {Undef, Str(<<>>),
     Str(<<Seg("a", "pdf")>>),
     Str(<<Seg("a", "txt")>>),
     Str(<<EmptySeg, DotDot, Seg("a", "pdf")>>),
     Str(<<EmptySeg, DotDot, DotDot, Seg("a", "pdf")>>),
     Str(<<DotDot, Seg("a", "pdf")>>)}

\* Messages of the provider's errors.
ProviderMsgs == {"quota exceeded", "document not found"}

\* The fields of the bodies of the four endpoints, all missing.
NoBody ==
    [text |-> Undef, source_lang |-> Undef, target_lang |-> Undef,
     file |-> Undef,
     document_id |-> Undef, document_key |-> Undef, outputFileName |-> Undef]

\* Bodies of /translate: every combination of the required fields, and every
\* source_lang with the required fields present.
TranslateBodies ==
    {[NoBody EXCEPT !.text = t, !.target_lang = g] : t \in FieldVals, g \in FieldVals}
    \cup {[NoBody EXCEPT !.text = Str(<<"x">>), !.source_lang = s,
                         !.target_lang = Str(<<"x">>)] : s \in SourceLangs}

\* req.file is an object when a file part was uploaded, undefined otherwise.
UploadBodies == {[NoBody EXCEPT !.file = f] : f \in {Undef, Str(<<"x">>)}}

StatusBodies ==
    {[NoBody EXCEPT !.document_id = i, !.document_key = k] :
        i \in FieldVals, k \in FieldVals}

\* Bodies of /download-document: every combination of the two identifiers,
\* and every outputFileName with the identifiers present.
DownloadBodies ==
    {[NoBody EXCEPT !.document_id = i, !.document_key = k,
                    !.outputFileName = Str(<<Seg("a", "pdf")>>)] :
        i \in FieldVals, k \in FieldVals}
    \cup {[NoBody EXCEPT !.document_id = Str(<<"x">>), !.document_key = Str(<<"x">>),
                         !.outputFileName = n] : n \in FileNames}

-----------------------------------------------------------------------------
(* Requests and responses.                                                 *)

NoResp == [status |-> 0, json |-> FALSE, error |-> "", details |-> ""]

\* res.status(s).json({error: e, details: d})
JsonError(s, e, d) == [status |-> s, json |-> TRUE, error |-> e, details |-> d]

\* res.json(payload): a 200 with a JSON body that is not an error object
JsonOk == [status |-> 200, json |-> TRUE, error |-> "", details |-> ""]

\* The answer of Express' default error handler: an HTML page.
FrameworkError(s) == [status |-> s, json |-> FALSE, error |-> "", details |-> ""]

\* The streamed file: status 200, a binary body.
StreamedBody == [status |-> 200, json |-> FALSE, error |-> "", details |-> ""]

\* The arguments of translator.translateText(text, sourceLang, targetLang).
NoArgs == [text |-> Undef, sourceLang |-> Undef, targetLang |-> Undef]

Idle ==
    [ep |-> "none", parsed |-> FALSE, body |-> NoBody, phase |-> "idle",
     exit |-> "none", resp |-> NoResp, log |-> <<>>,
     callArgs |-> NoArgs, providerMsg |-> "",
     tempFilePath |-> <<>>, headers |-> {}, headersSent |-> FALSE,
     opened |-> FALSE, streamed |-> FALSE, closed |-> FALSE,
     tempAtCatch |-> FALSE, tempAtSend |-> FALSE]

Init ==
    /\ req = [r \in Reqs |-> Idle]
    /\ fs = {}
    /\ uuidCount = 0

\* Requests are admitted in slot order.
CanArrive(r) ==
    /\ req[r].ep = "none"
    /\ \A s \in Reqs : s < r => req[s].ep # "none"

\* The handler's response, and the end of the request.
Respond(q, exit, resp) ==
    [q EXCEPT !.phase = "done", !.exit = exit, !.resp = resp,
              !.log = Append(q.log, "respond")]

-----------------------------------------------------------------------------
(* Body-parsing middleware: express.json() and multer's upload.single().   *)

\* The body cannot be parsed: the middleware passes the error on and, no
\* error middleware being registered, Express' default handler answers;
\* the route handler never runs.
MiddlewareReject(r) ==
    /\ CanArrive(r)
    /\ \E ep \in {"translate", "upload", "status", "download"} :
          req' = [req EXCEPT ![r] =
                    [Idle EXCEPT !.ep = ep, !.phase = "done", !.exit = "middleware",
                                 !.resp = FrameworkError(IF ep = "upload" THEN 500 ELSE 400)]]
    /\ UNCHANGED <<fs, uuidCount>>

-----------------------------------------------------------------------------
(* POST /translate                                                         *)

\* if (!text || !target_lang)
TranslateInvalid(b) == ~Truthy(b.text) \/ ~Truthy(b.target_lang)

\* Faulty variant of TranslateSource: the blank check is forgotten.
TranslateSourceNoTrim(b) == IF Truthy(b.source_lang) THEN b.source_lang ELSE Undef

\* The source language handed to translator.translateText: source_lang, or
\* null (written Undef) for auto-detection.
TranslateSource(b) ==
    IF Truthy(b.source_lang) /\ Trim(b.source_lang.v) # <<>>
    THEN b.source_lang
    ELSE Undef

\* The handler up to its await.
TranslateHandle(q) ==
    IF TranslateInvalid(q.body)
    THEN Respond(q, "validation",
                 JsonError(400, "Missing required fields: text or targetLang", ""))
    ELSE [q EXCEPT !.phase = "await",
                   !.callArgs = [text |-> q.body.text,
                                 sourceLang |-> TranslateSource(q.body),
                                 targetLang |-> q.body.target_lang],
                   !.log = Append(q.log, "translateText")]

\* Faulty variant of TranslateCatch: the error leaves the handler and the framework
\* answers.
TranslateCatchEscapes(q) == Respond(q, "provider", FrameworkError(500))

\* catch (error): res.status(500).json({ error: "Failed to translate text" })
TranslateCatch(q) == Respond(q, "provider", JsonError(500, "Failed to translate text", ""))

Translate(r) ==
    /\ CanArrive(r)
    /\ \E b \in TranslateBodies :
          req' = [req EXCEPT ![r] =
                    TranslateHandle([Idle EXCEPT !.ep = "translate", !.parsed = TRUE,
                                                 !.body = b])]
    /\ UNCHANGED <<fs, uuidCount>>

TranslateResolve(r) ==
    /\ req[r].ep = "translate" /\ req[r].phase = "await"
    /\ req' = [req EXCEPT ![r] = Respond(@, "ok", JsonOk)]
    /\ UNCHANGED <<fs, uuidCount>>

TranslateReject(r) ==
    /\ req[r].ep = "translate" /\ req[r].phase = "await"
    /\ req' = [req EXCEPT ![r] = TranslateCatch(@)]
    /\ UNCHANGED <<fs, uuidCount>>

-----------------------------------------------------------------------------
(* POST /translate-document                                                *)

\* if (!req.file)
UploadInvalid(b) == ~Truthy(b.file)

\* The handler up to its await.
UploadHandle(q) ==
    IF UploadInvalid(q.body)
    THEN Respond(q, "validation", JsonError(400, "No file uploaded", ""))
    ELSE [q EXCEPT !.phase = "await", !.log = Append(q.log, "uploadDocument")]

\* catch (err): res.status(500).json({ error: "Document upload failed", details })
UploadCatch(q) ==
    Respond(q, "provider", JsonError(500, "Document upload failed", q.providerMsg))

TranslateDocument(r) ==
    /\ CanArrive(r)
    /\ \E b \in UploadBodies :
          req' = [req EXCEPT ![r] =
                    UploadHandle([Idle EXCEPT !.ep = "upload", !.parsed = TRUE,
                                              !.body = b])]
    /\ UNCHANGED <<fs, uuidCount>>

UploadResolve(r) ==
    /\ req[r].ep = "upload" /\ req[r].phase = "await"
    /\ req' = [req EXCEPT ![r] = Respond(@, "ok", JsonOk)]
    /\ UNCHANGED <<fs, uuidCount>>

\* err.response?.data of the provider's error is what `details` carries.
UploadReject(r) ==
    /\ req[r].ep = "upload" /\ req[r].phase = "await"
    /\ \E m \in ProviderMsgs :
          req' = [req EXCEPT ![r] = UploadCatch([@ EXCEPT !.providerMsg = m])]
    /\ UNCHANGED <<fs, uuidCount>>

-----------------------------------------------------------------------------
(* POST /get-document-status                                               *)

\* Faulty variant of StatusInvalid: && in place of ||.
StatusInvalidBoth(b) == ~Truthy(b.document_id) /\ ~Truthy(b.document_key)

\* if (!document_id || !document_key)
StatusInvalid(b) == ~Truthy(b.document_id) \/ ~Truthy(b.document_key)

\* The handler up to its await.
StatusHandle(q) ==
    IF StatusInvalid(q.body)
    THEN Respond(q, "validation",
                 JsonError(400, "Missing document_id or document_key", ""))
    ELSE [q EXCEPT !.phase = "await", !.log = Append(q.log, "getDocumentStatus")]

\* Faulty variant of StatusCatch: the provider is asked again.
StatusCatchRetry(q) == [q EXCEPT !.log = Append(q.log, "getDocumentStatus")]

\* catch (error): res.status(500).json({ error: "Failed to get document status" })
StatusCatch(q) ==
    Respond(q, "provider", JsonError(500, "Failed to get document status", ""))

GetDocumentStatus(r) ==
    /\ CanArrive(r)
    /\ \E b \in StatusBodies :
          req' = [req EXCEPT ![r] =
                    StatusHandle([Idle EXCEPT !.ep = "status", !.parsed = TRUE,
                                              !.body = b])]
    /\ UNCHANGED <<fs, uuidCount>>

StatusResolve(r) ==
    /\ req[r].ep = "status" /\ req[r].phase = "await"
    /\ req' = [req EXCEPT ![r] = Respond(@, "ok", JsonOk)]
    /\ UNCHANGED <<fs, uuidCount>>

StatusReject(r) ==
    /\ req[r].ep = "status" /\ req[r].phase = "await"
    /\ req' = [req EXCEPT ![r] = StatusCatch(@)]
    /\ UNCHANGED <<fs, uuidCount>>

-----------------------------------------------------------------------------
(* POST /download-document                                                 *)

\* if (!document_id || !document_key || !outputFileName)
DownloadInvalid(b) ==
    ~Truthy(b.document_id) \/ ~Truthy(b.document_key) \/ ~Truthy(b.outputFileName)

\* The handler up to `await translator.downloadDocument(documentHandle,
\* tempFilePath)`: validation, the temp path from a fresh uuid, the call.
DownloadHandle(q, uuid) ==
    IF DownloadInvalid(q.body)
    THEN Respond(q, "validation", JsonError(400, "Missing parameters", ""))
    ELSE [q EXCEPT !.phase = "await",
                   !.tempFilePath = TempFilePath(uuid, q.body.outputFileName.v),
                   !.log = Append(q.log, "downloadDocument")]

\* After the await: the two headers, the read stream, the pipe.
DownloadSend(q) ==
    [q EXCEPT !.phase = "piping",
              !.headers = {<<"Content-Disposition", q.body.outputFileName.v>>,
                           <<"Content-Type", getMimeType(ExtName(q.body.outputFileName.v))>>},
              !.log = q.log \o <<"setHeader", "setHeader", "createReadStream", "pipe">>]

\* Faulty variant of CatchCleanupFs: the catch block does not clean up.
CatchCleanupFsNone(q, files) == files

\* catch (downloadError), the cleanup: if (fs.existsSync(tempFilePath))
\* fs.unlinkSync(tempFilePath).  The files on disk afterwards.
CatchCleanupFs(q, files) == files \ {q.tempFilePath}

\* catch (downloadError): the cleanup, then the 500 with the error's message.
\* `files` are the files on disk when the catch block starts.
DownloadCatch(q, files) ==
    LET cleaned == IF q.tempFilePath \in files
                   THEN [q EXCEPT !.log = q.log \o <<"existsSync", "unlinkSync">>]
                   ELSE [q EXCEPT !.log = Append(q.log, "existsSync")]
    IN  Respond([cleaned EXCEPT !.tempAtCatch = q.tempFilePath \in files,
                                !.tempAtSend =
                                    q.tempFilePath \in CatchCleanupFs(q, files)],
                "provider",
                JsonError(500, "Download from DeepL failed", q.providerMsg))

\* Faulty variant of StreamOnError: the handler does not unlink.
StreamOnErrorNoUnlink(q) ==
    [q EXCEPT !.phase = "unlinking", !.exit = "error",
              !.resp = IF q.headersSent THEN StreamedBody
                       ELSE JsonError(500, "Error streaming file", ""),
              !.headersSent = TRUE,
              !.log = Append(q.log, IF q.headersSent THEN "end" ELSE "respond")]

\* fileStream.on('error'): a 500 when no header went out yet, else the
\* response is ended as it is; then fs.unlink is issued.
StreamOnError(q) ==
    [q EXCEPT !.phase = "unlinking", !.exit = "error",
              !.resp = IF q.headersSent THEN StreamedBody
                       ELSE JsonError(500, "Error streaming file", ""),
              !.headersSent = TRUE,
              !.log = q.log \o <<IF q.headersSent THEN "end" ELSE "respond", "unlink">>]

\* 'end' of the read stream: the pipe ends the response, and the handler's
\* fileStream.on('end') issues fs.unlink.
StreamOnEnd(q) ==
    [q EXCEPT !.phase = "unlinking", !.exit = "end", !.resp = StreamedBody,
              !.headersSent = TRUE,
              !.log = q.log \o <<"end", "unlink">>]

DownloadDocument(r) ==
    /\ CanArrive(r)
    /\ \E b \in DownloadBodies :
          LET q == DownloadHandle([Idle EXCEPT !.ep = "download", !.parsed = TRUE,
                                               !.body = b], uuidCount + 1)
          IN  /\ req' = [req EXCEPT ![r] = q]
              /\ uuidCount' = IF q.phase = "await" THEN uuidCount + 1 ELSE uuidCount
    /\ UNCHANGED fs

\* The provider wrote the document to tempFilePath (its directory exists).
DownloadResolve(r) ==
    /\ req[r].ep = "download" /\ req[r].phase = "await"
    /\ Parent(req[r].tempFilePath) \in Dirs
    /\ fs' = fs \cup {req[r].tempFilePath}
    /\ req' = [req EXCEPT ![r] = DownloadSend([@ EXCEPT !.log = Append(@, "downloaded")])]
    /\ UNCHANGED uuidCount

\* The provider failed, having left a (partial) file behind or not.
DownloadReject(r) ==
    /\ req[r].ep = "download" /\ req[r].phase = "await"
    /\ \E m \in ProviderMsgs, left \in BOOLEAN :
          LET files == IF left /\ Parent(req[r].tempFilePath) \in Dirs
                       THEN fs \cup {req[r].tempFilePath}
                       ELSE fs
          IN  /\ req' = [req EXCEPT ![r] =
                            DownloadCatch([@ EXCEPT !.providerMsg = m], files)]
              /\ fs' = CatchCleanupFs(req[r], files)
    /\ UNCHANGED uuidCount

\* The read stream opens the file; a missing file is an 'error' event.
\* The open is made whether or not the client is still there.
StreamOpen(r) ==
    /\ req[r].ep = "download" /\ req[r].phase = "piping" /\ ~req[r].opened
    /\ req' = [req EXCEPT ![r] =
                 IF @.tempFilePath \in fs
                 THEN [@ EXCEPT !.opened = TRUE]
                 ELSE StreamOnError(@)]
    /\ UNCHANGED <<fs, uuidCount>>

\* A chunk is read and written to the response: the headers go out with
\* the first one.
StreamData(r) ==
    /\ req[r].ep = "download" /\ req[r].phase = "piping"
    /\ req[r].opened /\ ~req[r].closed
    /\ req' = [req EXCEPT ![r].streamed = TRUE, ![r].headersSent = TRUE]
    /\ UNCHANGED <<fs, uuidCount>>

\* The file is read to its end.
StreamEnd(r) ==
    /\ req[r].ep = "download" /\ req[r].phase = "piping"
    /\ req[r].opened /\ ~req[r].closed
    /\ req' = [req EXCEPT ![r] = StreamOnEnd(@)]
    /\ UNCHANGED <<fs, uuidCount>>

\* A read fails.
StreamFault(r) ==
    /\ req[r].ep = "download" /\ req[r].phase = "piping"
    /\ req[r].opened /\ ~req[r].closed
    /\ req' = [req EXCEPT ![r] = StreamOnError(@)]
    /\ UNCHANGED <<fs, uuidCount>>

\* The callback of fs.unlink: the file is gone (or was not there).
UnlinkDone(r) ==
    /\ req[r].ep = "download" /\ req[r].phase = "unlinking"
    /\ fs' = fs \ {req[r].tempFilePath}
    /\ req' = [req EXCEPT ![r].phase = "done"]
    /\ UNCHANGED uuidCount

\* The client goes away while the file is piped: the response closes and
\* pipe() detaches the read stream, which stays paused and emits neither
\* 'end' nor a read 'error'.  The handler listens to no 'close' event.
ClientDisconnect(r) ==
    /\ req[r].ep = "download" /\ req[r].phase = "piping" /\ ~req[r].closed
    /\ req' = [req EXCEPT ![r].closed = TRUE,
                          ![r].log = Append(@, "close")]
    /\ UNCHANGED <<fs, uuidCount>>

-----------------------------------------------------------------------------

\* The steps of request r.
Step(r) ==
    \/ MiddlewareReject(r)
    \/ Translate(r)
    \/ TranslateResolve(r)
    \/ TranslateReject(r)
    \/ TranslateDocument(r)
    \/ UploadResolve(r)
    \/ UploadReject(r)
    \/ GetDocumentStatus(r)
    \/ StatusResolve(r)
    \/ StatusReject(r)
    \/ DownloadDocument(r)
    \/ DownloadResolve(r)
    \/ DownloadReject(r)
    \/ StreamOpen(r)
    \/ StreamData(r)
    \/ StreamEnd(r)
    \/ StreamFault(r)
    \/ UnlinkDone(r)
    \/ ClientDisconnect(r)

Next == \E r \in Reqs : Step(r)

Spec == Init /\ [][Next]_vars

-----------------------------------------------------------------------------
(* Vocabulary of the properties.                                           *)

\* How many events of `log` are in the set `events`.
Count(log, events) == Cardinality({i \in DOMAIN log : log[i] \in events})

ProviderOps == {"translateText", "uploadDocument", "getDocumentStatus", "downloadDocument"}

\* Calls of fs.unlink / fs.unlinkSync made for the request.
Unlinks(q) == Count(q.log, {"unlink", "unlinkSync"})

\* The required fields of each endpoint.
Required(ep) ==
    CASE ep = "translate" -> {"text", "target_lang"}
      [] ep = "upload"    -> {"file"}
      [] ep = "status"    -> {"document_id", "document_key"}
      [] ep = "download"  -> {"document_id", "document_key", "outputFileName"}
      [] OTHER            -> {}

\* A parsed request one of whose required fields is missing (or empty).
OmitsField(q) ==
    q.parsed /\ \E f \in Required(q.ep) : q.body[f] = Undef \/ q.body[f] = Str(<<>>)

\* A parsed request with every required field present.
PassesValidation(q) == q.parsed /\ ~OmitsField(q)

\* A response that is a JSON error object at a 4xx/5xx status.
IsJsonError(resp) ==
    resp.status >= 400 /\ resp.status <= 599 /\ resp.json /\ resp.error # ""

\* A download request that was given a temporary file path.
HasTemp(q) == q.ep = "download" /\ q.tempFilePath # <<>>

\* The request is over: its handler and every callback it registered have
\* run, or the client is gone and the detached read stream has been opened.
Completed(q) ==
    \/ q.phase = "done"
    \/ q.phase = "piping" /\ q.closed /\ q.opened

\* The request's handler still holds its temporary file path.
InFlight(q) == HasTemp(q) /\ ~Completed(q)

\* The path is below the temp directory.
InTempDir(p) == Len(p) > Len(tempDir) /\ SubSeq(p, 1, Len(tempDir)) = tempDir

\* s consists of whitespace only.
Blank(s) == \A i \in DOMAIN s : s[i] \in Whitespace

-----------------------------------------------------------------------------
(* C1 *)

\* C1: once a /download-document request has completed by any path, the
\* temporary file created for it no longer exists on disk.
C1_NoTempFileAfterCompletion ==
    \A r \in Reqs :
        (HasTemp(req[r]) /\ Completed(req[r])) => req[r].tempFilePath \notin fs

-----------------------------------------------------------------------------
(* C2 *)

\* C2 (as claimed): on each of the exits provider failure, stream 'end' and
\* stream 'error', deletion of the temporary file is attempted exactly once.
C2_ExactlyOneUnlinkOnEveryExit ==
    \A r \in Reqs :
        (HasTemp(req[r]) /\ req[r].exit \in {"provider", "end", "error"})
            => Unlinks(req[r]) = 1

\* C2 (amended): deletion is never attempted twice; it is attempted exactly
\* once on stream 'end' and on stream 'error'; on a provider failure the
\* existence check runs exactly once and the deletion is attempted exactly
\* once when the file exists at that moment, and not at all when it does not.
C2_UnlinkOnceWhenFileExists ==
    \A r \in Reqs :
        HasTemp(req[r]) =>
            /\ Unlinks(req[r]) <= 1
            /\ req[r].exit \in {"end", "error"} => Unlinks(req[r]) = 1
            /\ req[r].exit = "provider" =>
                  /\ Count(req[r].log, {"existsSync"}) = 1
                  /\ Unlinks(req[r]) = IF req[r].tempAtCatch THEN 1 ELSE 0
            /\ req[r].exit = "none" => Unlinks(req[r]) = 0

\* A provider failure that left a file, cleaned up once; and a stream that
\* ended and one that failed, both cleaned up.
C2_Witness ==
    /\ \E r \in Reqs :
          /\ req[r].exit = "provider" /\ req[r].tempAtCatch /\ Unlinks(req[r]) = 1
    /\ \E r \in Reqs :
          /\ req[r].exit \in {"end", "error"} /\ req[r].phase = "done"

-----------------------------------------------------------------------------
(* C3 *)

\* C3: if the client disconnects while the file is streamed, then once the
\* request can take no further step the deletion of its temporary file has
\* been attempted.
C3_DisconnectCleansUp ==
    \A r \in Reqs :
        (req[r].closed /\ ~ENABLED Step(r)) => Unlinks(req[r]) >= 1

-----------------------------------------------------------------------------
(* C4 *)

\* C4: two /download-document requests in flight at the same time never
\* have the same temporary file path.
C4_TempPathsDistinct ==
    \A r1, r2 \in Reqs :
        (r1 # r2 /\ InFlight(req[r1]) /\ InFlight(req[r2]))
            => req[r1].tempFilePath # req[r2].tempFilePath

-----------------------------------------------------------------------------
(* C5 *)

\* C5: a request that omits a required field is answered 400 with an error
\* field, no provider operation is invoked and no temporary file is made.
C5_MissingFieldRejected ==
    \A r \in Reqs :
        OmitsField(req[r]) =>
            /\ req[r].resp.status = 400
            /\ req[r].resp.json /\ req[r].resp.error # ""
            /\ Count(req[r].log, ProviderOps) = 0
            /\ req[r].tempFilePath = <<>>
            /\ req[r].phase = "done"

\* A /download-document request without outputFileName and a /translate
\* request without target_lang have both been answered 400.
C5_Witness ==
    /\ MaxReq >= 2
    /\ \E r1, r2 \in Reqs :
          /\ req[r1].ep = "download" /\ req[r1].body.outputFileName = Undef
          /\ req[r1].body.document_id # Undef /\ req[r1].resp.status = 400
          /\ req[r2].ep = "translate" /\ req[r2].body.target_lang = Undef
          /\ req[r2].resp.status = 400

-----------------------------------------------------------------------------
(* C6 *)

\* The request failed: it was rejected, the provider failed, or the stream
\* failed.
Failed(q) == q.exit \in {"middleware", "validation", "provider", "error"}

-----------------------------------------------------------------------------
(* C7 *)

\* C7: a request that passes validation invokes exactly one provider
\* operation, also when that operation fails, and any other request none.
C7_OneProviderCall ==
    \A r \in Reqs :
        req[r].ep # "none" =>
            Count(req[r].log, ProviderOps) =
                IF PassesValidation(req[r]) THEN 1 ELSE 0

\* A provider operation failed and the request is over.
C7_Witness ==
    \E r \in Reqs :
        /\ req[r].exit = "provider" /\ req[r].phase = "done"
        /\ Count(req[r].log, ProviderOps) = 1

-----------------------------------------------------------------------------
(* C8 *)

\* C8: for every outputFileName the path handed to the provider download,
\* read and deleted lies inside the temp directory, and so does every file
\* the relay has had written.
C8_TempPathInsideTempDir ==
    /\ \A r \in Reqs : HasTemp(req[r]) => InTempDir(req[r].tempFilePath)
    /\ \A p \in fs : InTempDir(p)

-----------------------------------------------------------------------------
(* C9 *)

\* C9: a /translate request that passes validation calls the provider with
\* its text and target_lang, and with source_lang exactly when source_lang
\* is present and not blank; otherwise with no source language; it is not
\* rejected.
C9_SourceLangOrAutoDetect ==
    \A r \in Reqs :
        (req[r].ep = "translate" /\ PassesValidation(req[r])) =>
            LET b == req[r].body
                explicit == b.source_lang # Undef /\ ~Blank(b.source_lang.v)
            IN  /\ Count(req[r].log, {"translateText"}) = 1
                /\ req[r].callArgs.text = b.text
                /\ req[r].callArgs.targetLang = b.target_lang
                /\ req[r].callArgs.sourceLang = IF explicit THEN b.source_lang ELSE Undef
                /\ req[r].resp.status # 400

\* A blank source_lang went to the provider as auto-detect, and a padded
\* one went through as it was.
C9_Witness ==
    /\ MaxReq >= 2
    /\ \E r1, r2 \in Reqs :
          /\ req[r1].ep = "translate" /\ req[r1].body.source_lang = Str(<<" ", "\t">>)
          /\ req[r1].callArgs.sourceLang = Undef /\ req[r1].phase = "await"
          /\ req[r2].ep = "translate" /\ req[r2].body.source_lang = Str(<<" ", "E", "N">>)
          /\ req[r2].callArgs.sourceLang = Str(<<" ", "E", "N">>)
          /\ req[r2].exit = "ok"

-----------------------------------------------------------------------------
(* C10 *)

\* Event i of the log comes after an event e.
After(log, i, e) == \E j \in DOMAIN log : j < i /\ log[j] = e

=============================================================================
